---- MODULE Spec2Model ----
(***************************************************************************)
(* Model of the signal pipeline of src/signal_generator.py:                *)
(* SignalGenerator.analyze_asset and generate_comprehensive_signal, with   *)
(* detect_trend, the scoring rules, the decision step, the post-filters    *)
(* and the signal construction.                                            *)
(*                                                                         *)
(* Numbers are fixed point.  Prices, EMAs, MACD, ATR and the Bollinger     *)
(* values are integers in ticks; RSI and %K are in points; momentum is in  *)
(* tenths of a percent; a trend strength of 1.0 is StrengthOne; one score  *)
(* point is Point, so that 1.5 * trend strength is 3 * strength exactly;   *)
(* a signal strength of 1.0 is 10 * Point; a confidence is kept as the     *)
(* fraction num/den it is computed from.                                   *)
(***************************************************************************)
EXTENDS Integers, Sequences, FiniteSets, TLC

StrengthOne == 1000
Point == 2000
BBWidthOne == 10000

Abs(x) == IF x < 0 THEN -x ELSE x
Min(a, b) == IF a < b THEN a ELSE b
Max(a, b) == IF a > b THEN a ELSE b

(***************************************************************************)
(* Bounds of the model.                                                    *)
(***************************************************************************)
MaxRuns == 2

Assets == {"EURUSD"}
Timeframes == {1, 5, 15}
DirectTimeframes == {1, 5, 15, 30}
Times == {1000, 1060}

(***************************************************************************)
(* SignalGenerator.__init__: minimum data requirements per timeframe, and  *)
(* the lookup min_data_requirements.get(timeframe, 100).                   *)
(***************************************************************************)
min_data_requirements == (1 :> 120) @@ (5 :> 150) @@ (15 :> 200)

\* variant: the lookup misses for every timeframe
min_required_default(timeframe) == 100

min_required(timeframe) ==
    IF timeframe \in DOMAIN min_data_requirements
    THEN min_data_requirements[timeframe]
    ELSE 100

(***************************************************************************)
(* One row of the frame calculate_technical_indicators returns.  The       *)
(* derived columns are computed as the code computes them: macd_hist,      *)
(* bb_upper, bb_lower, bb_width.                                           *)
(***************************************************************************)
IndicatorRow(close, open, ema_9, ema_21, ema_50, rsi, macd, macd_signal, bb_middle, std, stoch_k, momentum, atr) ==
    [close |-> close, open |-> open,
     ema_9 |-> ema_9, ema_21 |-> ema_21, ema_50 |-> ema_50,
     rsi |-> rsi,
     macd |-> macd, macd_signal |-> macd_signal,
     macd_hist |-> macd - macd_signal,
     bb_middle |-> bb_middle,
     bb_upper |-> bb_middle + (std * 2),
     bb_lower |-> bb_middle - (std * 2),
     bb_width |-> (((bb_middle + (std * 2)) - (bb_middle - (std * 2))) * BBWidthOne)
                      \div bb_middle,
     atr |-> atr,
     stoch_k |-> stoch_k,
     momentum |-> momentum]

NoRow == IndicatorRow(0, 0, 0, 0, 0, 0, 0, 0, 1, 0, 0, 0, 0)

(***************************************************************************)
(* The bar series an analysis runs on.  len is the number of bars; the     *)
(* indicator values of its tail are what calculate_technical_indicators    *)
(* and dropna produce from it: clean_len complete rows, the last one       *)
(* current, the one before it prev, and ema21_ref the ema_21 of the row    *)
(* at iloc[-10].  The values are drawn from the small sets below.          *)
(***************************************************************************)
Ema21Ref == 10000

TrendChoices ==
    { [ema_21 |-> e, shape |-> s] : e \in {9995, 10006, 10010},
                                    s \in {"up", "down", "mixed"} }

Ema9Of(t) == IF t.shape = "down" THEN t.ema_21 - 2 ELSE t.ema_21 + 2
Ema50Of(t) == IF t.shape = "up" THEN t.ema_21 - 4 ELSE t.ema_21 + 4
CloseOf(t) == IF t.shape = "down" THEN Ema9Of(t) - 3 ELSE Ema9Of(t) + 3

PrevEmaChoices == {-1, 1}

\* <<current rsi, previous rsi>>
RsiChoices == { <<25, 30>>, <<75, 70>>, <<35, 30>>, <<65, 70>>, <<50, 50>>,
                <<35, 25>>, <<65, 75>> }

\* <<current macd, previous macd>>, the signal line being 0 on both rows
MacdChoices == { <<2, -1>>, <<-2, 1>>, <<2, 1>>, <<-2, -1>>, <<2, 3>> }

\* Bollinger values as offsets from the current close
BBChoices ==
    { [mid |-> 10,  std |-> 2,   pclose |-> 8,  plower |-> 6,    pupper |-> 14],
      [mid |-> -10, std |-> 2,   pclose |-> -8, plower |-> -14,  pupper |-> -6],
      [mid |-> -1,  std |-> 2,   pclose |-> -1, plower |-> -6,   pupper |-> 2],
      [mid |-> 1,   std |-> 2,   pclose |-> 1,  plower |-> -2,   pupper |-> 6],
      [mid |-> 0,   std |-> 100, pclose |-> -1, plower |-> -200, pupper |-> 200],
      [mid |-> 0,   std |-> 100, pclose |-> 1,  plower |-> -200, pupper |-> 200],
      [mid |-> 5,   std |-> 3,   pclose |-> -8, plower |-> -6,   pupper |-> 6],
      [mid |-> -5,  std |-> 3,   pclose |-> 8,  plower |-> -6,   pupper |-> 6] }

\* <<current %K, previous %K, current momentum>>
OscChoices == { <<10, 5, 10>>, <<90, 95, -10>>, <<50, 50, 0>>, <<10, 5, -10>> }

OpenChoices == {-1, 1}

AtrChoice == 10

CurrentRow(t, r, m, b, o, op) ==
    IndicatorRow(CloseOf(t), CloseOf(t) + op, Ema9Of(t), t.ema_21, Ema50Of(t),
                 r[1], m[1], 0, CloseOf(t) + b.mid, b.std, o[1], o[3], AtrChoice)

PrevRow(t, pe, r, m, b, o) ==
    LET pmid == (CloseOf(t) + b.plower + CloseOf(t) + b.pupper) \div 2
        pstd == (b.pupper - b.plower) \div 4
    IN  IndicatorRow(CloseOf(t) + b.pclose, CloseOf(t) + b.pclose,
                     t.ema_21 + pe, t.ema_21, Ema50Of(t),
                     r[2], m[2], 0, pmid, pstd, o[2], 0, AtrChoice)

\* the ema_21 of the row at iloc[-11], ten rows before the current one
Ema21Prior == 9996

\* dropped_tail is the number of incomplete rows dropna removes after the
\* last complete row, dropped_gap the number it removes between the last two
\* complete rows: a row is incomplete when one of its columns is NaN, as
\* %K and RSI are on a flat 14-bar window and the volume ratio is on twenty
\* bars without volume
SeriesDropped(len, clean_len, current, prev, dropped_tail, dropped_gap) ==
    [len |-> len, clean_len |-> clean_len,
     current |-> current, prev |-> prev,
     ema21_ref |-> Ema21Ref, ema21_prior |-> Ema21Prior,
     dropped_tail |-> dropped_tail, dropped_gap |-> dropped_gap]

Series(len, clean_len, current, prev) ==
    SeriesDropped(len, clean_len, current, prev, 0, 0)

EmptyDF == Series(0, 0, NoRow, NoRow)

FullLen == 200

PassingTrends ==
    { t \in TrendChoices : t.shape # "mixed" /\ Abs(t.ema_21 - Ema21Ref) >= 6 }

FullSeries ==
    { Series(FullLen, FullLen - 49,
             CurrentRow(t, r, m, b, o, op), PrevRow(t, pe, r, m, b, o)) :
        t \in PassingTrends, pe \in PrevEmaChoices, r \in RsiChoices,
        m \in MacdChoices, b \in BBChoices, o \in OscChoices, op \in OpenChoices }

\* Rows whose rules all point the way of the EMA stack, for every trend choice.
ProbeRows ==
    { IF t.shape = "down"
      THEN << CurrentRow(t, <<75, 70>>, <<-2, 1>>, [mid |-> 0, std |-> 100, pclose |-> 1, plower |-> -200, pupper |-> 200], <<90, 95, -10>>, 1),
              PrevRow(t, 1, <<75, 70>>, <<-2, 1>>, [mid |-> 0, std |-> 100, pclose |-> 1, plower |-> -200, pupper |-> 200], <<90, 95, -10>>) >>
      ELSE << CurrentRow(t, <<25, 30>>, <<2, -1>>, [mid |-> 0, std |-> 100, pclose |-> -1, plower |-> -200, pupper |-> 200], <<10, 5, 10>>, -1),
              PrevRow(t, -1, <<25, 30>>, <<2, -1>>, [mid |-> 0, std |-> 100, pclose |-> -1, plower |-> -200, pupper |-> 200], <<10, 5, 10>>) >>
      : t \in TrendChoices }

ProbeLens == {1, 99, 100, 119, 120, 149, 150, 199, 200, 250}

\* The first 49 rows have no sma_50, so at most len - 49 rows are complete;
\* rows with an undefined %K or volume ratio are dropped as well.
CleanLens(len) ==
    {Max(len - 49, 0)} \cup (IF len = FullLen THEN {0, 19, 20, 49, 50} ELSE {})

\* <<rows dropped after the last complete row, rows dropped before it>>
DroppedChoices == { <<1, 0>>, <<0, 3>>, <<2, 2>> }

ProbeSeries ==
    UNION { { Series(n, c, rows[1], rows[2]) : c \in CleanLens(n), rows \in ProbeRows } :
            n \in ProbeLens }
    \cup { SeriesDropped(FullLen, FullLen - 49 - (d[1] + d[2]), rows[1], rows[2], d[1], d[2]) :
             d \in DroppedChoices, rows \in ProbeRows }

\* positions, in the series passed in, of the rows read as current and prev
\* (df.iloc[-1] and df.iloc[-2] after dropna); the latest bar is at len - 1
CurrentIndex(df) == (df.len - 1) - df.dropped_tail
PrevIndex(df) == (CurrentIndex(df) - 1) - df.dropped_gap

(***************************************************************************)
(* What a call produces: no signal (None), a TradingSignal, or an          *)
(* exception that leaves the function.                                     *)
(***************************************************************************)
NoConfidence == [num |-> 0, den |-> 1]

NoIndicators ==
    [rsi |-> 0, macd |-> 0, macd_signal |-> 0, trend |-> "NONE",
     trend_strength |-> 0, atr |-> 0, buy_score |-> 0, sell_score |-> 0,
     reasons |-> << >>]

NoSignal ==
    [asset |-> "", timeframe |-> 0, signal_type |-> "", direction |-> "NONE",
     strength |-> 0, confidence |-> NoConfidence, current_price |-> 0,
     target_price |-> 0, entry_time |-> 0, expiry_time |-> 0,
     indicators |-> NoIndicators]

None == [kind |-> "none", exc |-> "", signal |-> NoSignal]
Raised(exc) == [kind |-> "raise", exc |-> exc, signal |-> NoSignal]
Returned(signal) == [kind |-> "signal", exc |-> "", signal |-> signal]

\* confidence >= pct / 100 and confidence < pct / 100, on the exact fraction
ConfGe(c, pct) == 100 * c.num >= pct * c.den
ConfLt(c, pct) == 100 * c.num < pct * c.den

(***************************************************************************)
(* SignalGenerator.detect_trend on the cleaned frame.                      *)
(***************************************************************************)
NoTrend == [trend |-> "NONE", strength |-> 0]

\* variant: no row minimum
detect_trend_nomin(df) ==
    LET current == df.current
        ema_bullish == current.ema_9 > current.ema_21 /\ current.ema_21 > current.ema_50
        ema_bearish == current.ema_9 < current.ema_21 /\ current.ema_21 < current.ema_50
        above_emas == current.close > current.ema_9 /\ current.ema_9 > current.ema_21
        below_emas == current.close < current.ema_9 /\ current.ema_9 < current.ema_21
        strength == Min((Abs(current.ema_21 - df.ema21_ref) * 1000 * StrengthOne)
                            \div df.ema21_ref, StrengthOne)
    IN  IF ema_bullish /\ above_emas
        THEN [trend |-> "BULLISH", strength |-> strength]
        ELSE IF ema_bearish /\ below_emas
        THEN [trend |-> "BEARISH", strength |-> strength]
        ELSE [trend |-> "NEUTRAL", strength |-> 0]

\* variant: the row minimum at 20
detect_trend_20(df) ==
    IF df.clean_len < 20
    THEN [trend |-> "NEUTRAL", strength |-> 0]
    ELSE
      LET current == df.current
          ema_bullish == current.ema_9 > current.ema_21 /\ current.ema_21 > current.ema_50
          ema_bearish == current.ema_9 < current.ema_21 /\ current.ema_21 < current.ema_50
          above_emas == current.close > current.ema_9 /\ current.ema_9 > current.ema_21
          below_emas == current.close < current.ema_9 /\ current.ema_9 < current.ema_21
          \* min(abs(ema21_slope) * 1000, 1.0), in units of 1 / StrengthOne
          strength == Min((Abs(current.ema_21 - df.ema21_ref) * 1000 * StrengthOne)
                              \div df.ema21_ref, StrengthOne)
      IN  IF ema_bullish /\ above_emas
          THEN [trend |-> "BULLISH", strength |-> strength]
          ELSE IF ema_bearish /\ below_emas
          THEN [trend |-> "BEARISH", strength |-> strength]
          ELSE [trend |-> "NEUTRAL", strength |-> 0]

detect_trend(df) ==
    IF df.clean_len < 50
    THEN [trend |-> "NEUTRAL", strength |-> 0]
    ELSE
      LET current == df.current
          ema_bullish == current.ema_9 > current.ema_21 /\ current.ema_21 > current.ema_50
          ema_bearish == current.ema_9 < current.ema_21 /\ current.ema_21 < current.ema_50
          above_emas == current.close > current.ema_9 /\ current.ema_9 > current.ema_21
          below_emas == current.close < current.ema_9 /\ current.ema_9 < current.ema_21
          \* min(abs(ema21_slope) * 1000, 1.0), in units of 1 / StrengthOne
          strength == Min((Abs(current.ema_21 - df.ema21_ref) * 1000 * StrengthOne)
                              \div df.ema21_ref, StrengthOne)
      IN  IF ema_bullish /\ above_emas
          THEN [trend |-> "BULLISH", strength |-> strength]
          ELSE IF ema_bearish /\ below_emas
          THEN [trend |-> "BEARISH", strength |-> strength]
          ELSE [trend |-> "NEUTRAL", strength |-> 0]

\* the trend gate of generate_comprehensive_signal: strength < 0.6 abstains
\* variant: the gate at 0.5
TrendGateWeak_half(trend_info) == 10 * trend_info.strength < 5 * StrengthOne

TrendGateWeak(trend_info) == 10 * trend_info.strength < 6 * StrengthOne

(***************************************************************************)
(* The scoring rules of generate_comprehensive_signal.  Each returns what  *)
(* it adds to buy_score and to sell_score and the reason tags it appends.  *)
(***************************************************************************)
Adds(buy, sell, reasons) == [buy |-> buy, sell |-> sell, reasons |-> reasons]
Nothing == Adds(0, 0, << >>)

RuleEmaCross(current, prev) ==
    IF current.ema_9 > current.ema_21 /\ prev.ema_9 <= prev.ema_21
    THEN Adds(2 * Point, 0, << "EMA 9/21 Bullish Cross" >>)
    ELSE IF current.ema_9 < current.ema_21 /\ prev.ema_9 >= prev.ema_21
    THEN Adds(0, 2 * Point, << "EMA 9/21 Bearish Cross" >>)
    ELSE Nothing

\* variant: the 1.5 points on a cross back out of the extreme zone
RuleRsi_recover(current, prev) ==
    IF prev.rsi < 30 /\ current.rsi > 30
    THEN Adds((3 * Point) \div 2, 0, << "RSI Oversold" >>)
    ELSE IF prev.rsi > 70 /\ current.rsi < 70
    THEN Adds(0, (3 * Point) \div 2, << "RSI Overbought" >>)
    ELSE IF 30 <= current.rsi /\ current.rsi < 40 /\ prev.rsi < current.rsi
    THEN Adds(Point \div 2, 0, << "RSI Recovery from Oversold" >>)
    ELSE IF 60 < current.rsi /\ current.rsi <= 70 /\ prev.rsi > current.rsi
    THEN Adds(0, Point \div 2, << "RSI Declining from Overbought" >>)
    ELSE Nothing

RuleRsi(current, prev) ==
    IF current.rsi < 30 /\ prev.rsi >= 30
    THEN Adds((3 * Point) \div 2, 0, << "RSI Oversold" >>)
    ELSE IF current.rsi > 70 /\ prev.rsi <= 70
    THEN Adds(0, (3 * Point) \div 2, << "RSI Overbought" >>)
    ELSE IF 30 <= current.rsi /\ current.rsi < 40 /\ prev.rsi < current.rsi
    THEN Adds(Point \div 2, 0, << "RSI Recovery from Oversold" >>)
    ELSE IF 60 < current.rsi /\ current.rsi <= 70 /\ prev.rsi > current.rsi
    THEN Adds(0, Point \div 2, << "RSI Declining from Overbought" >>)
    ELSE Nothing

RuleMacdCross(current, prev) ==
    IF current.macd > current.macd_signal /\ prev.macd <= prev.macd_signal
    THEN Adds(2 * Point, 0, << "MACD Bullish Cross" >>)
    ELSE IF current.macd < current.macd_signal /\ prev.macd >= prev.macd_signal
    THEN Adds(0, 2 * Point, << "MACD Bearish Cross" >>)
    ELSE Nothing

\* variant: the histogram rule appends a reason tag
RuleMacdHist_tagged(current, prev) ==
    IF current.macd_hist > 0 /\ current.macd_hist > prev.macd_hist
    THEN Adds(Point \div 2, 0, << "MACD Histogram Rising" >>)
    ELSE IF current.macd_hist < 0 /\ current.macd_hist < prev.macd_hist
    THEN Adds(0, Point \div 2, << "MACD Histogram Falling" >>)
    ELSE Nothing

RuleMacdHist(current, prev) ==
    IF current.macd_hist > 0 /\ current.macd_hist > prev.macd_hist
    THEN Adds(Point \div 2, 0, << >>)
    ELSE IF current.macd_hist < 0 /\ current.macd_hist < prev.macd_hist
    THEN Adds(0, Point \div 2, << >>)
    ELSE Nothing

\* variant: the 1.5 points on a cross back inside the band
RuleBollinger_recover(current, prev) ==
    IF prev.close < prev.bb_lower /\ current.close > current.bb_lower
    THEN Adds((3 * Point) \div 2, 0, << "Price Below BB Lower" >>)
    ELSE IF prev.close > prev.bb_upper /\ current.close < current.bb_upper
    THEN Adds(0, (3 * Point) \div 2, << "Price Above BB Upper" >>)
    ELSE Nothing

RuleBollinger(current, prev) ==
    IF current.close < current.bb_lower /\ prev.close >= prev.bb_lower
    THEN Adds((3 * Point) \div 2, 0, << "Price Below BB Lower" >>)
    ELSE IF current.close > current.bb_upper /\ prev.close <= prev.bb_upper
    THEN Adds(0, (3 * Point) \div 2, << "Price Above BB Upper" >>)
    ELSE Nothing

RuleBBSqueeze(current, prev) ==
    IF 100 * current.bb_width < 2 * BBWidthOne
    THEN IF current.close > current.bb_middle /\ current.close > prev.close
         THEN Adds(Point \div 2, 0, << "BB Squeeze Bullish Breakout" >>)
         ELSE IF current.close < current.bb_middle /\ current.close < prev.close
         THEN Adds(0, Point \div 2, << "BB Squeeze Bearish Breakout" >>)
         ELSE Nothing
    ELSE Nothing

RuleStochastic(current, prev) ==
    IF current.stoch_k < 20 /\ current.stoch_k > prev.stoch_k
    THEN Adds(Point, 0, << "Stochastic Oversold Recovery" >>)
    ELSE IF current.stoch_k > 80 /\ current.stoch_k < prev.stoch_k
    THEN Adds(0, Point, << "Stochastic Overbought Decline" >>)
    ELSE Nothing

\* 1.5 * trend strength is (3 * Point / 2) * strength / StrengthOne
RuleTrend(trend_info) ==
    IF trend_info.trend = "BULLISH"
    THEN Adds((3 * Point * trend_info.strength) \div (2 * StrengthOne), 0, << "Bullish Trend" >>)
    ELSE IF trend_info.trend = "BEARISH"
    THEN Adds(0, (3 * Point * trend_info.strength) \div (2 * StrengthOne), << "Bearish Trend" >>)
    ELSE Nothing

RulePriceAction(current, prev) ==
    IF current.close > prev.close /\ current.close > current.open
    THEN Adds(Point \div 2, 0, << >>)
    ELSE IF current.close < prev.close /\ current.close < current.open
    THEN Adds(0, Point \div 2, << >>)
    ELSE Nothing

RuleMomentum(current) ==
    IF current.momentum > 5
    THEN Adds(Point, 0, << "Strong Bullish Momentum" >>)
    ELSE IF current.momentum < -5
    THEN Adds(0, Point, << "Strong Bearish Momentum" >>)
    ELSE Nothing

\* the rules in the order the code runs them
Rules(current, prev, trend_info) ==
    << RuleEmaCross(current, prev), RuleRsi(current, prev),
       RuleMacdCross(current, prev), RuleMacdHist(current, prev),
       RuleBollinger(current, prev), RuleBBSqueeze(current, prev),
       RuleStochastic(current, prev), RuleTrend(trend_info),
       RulePriceAction(current, prev), RuleMomentum(current) >>

RECURSIVE SumBuy(_), SumSell(_), AllReasons(_)
SumBuy(rs) == IF rs = << >> THEN 0 ELSE Head(rs).buy + SumBuy(Tail(rs))
SumSell(rs) == IF rs = << >> THEN 0 ELSE Head(rs).sell + SumSell(Tail(rs))
AllReasons(rs) == IF rs = << >> THEN << >> ELSE Head(rs).reasons \o AllReasons(Tail(rs))

(***************************************************************************)
(* The decision step and the post-filters.                                 *)
(***************************************************************************)
\* variant: 5.0 for every timeframe
min_score_flat(timeframe) == 5 * Point

min_score(timeframe) == IF timeframe = 1 THEN 5 * Point ELSE (11 * Point) \div 2

NoDecision == [direction |-> "NONE", strength |-> 0, confidence |-> NoConfidence]

\* variant: a tie counts as a win
Decision_ge(buy_score, sell_score, timeframe) ==
    IF buy_score >= sell_score /\ buy_score >= min_score(timeframe)
    THEN [direction |-> "BUY",
          strength |-> Min(buy_score, 10 * Point),
          confidence |-> [num |-> buy_score, den |-> buy_score + sell_score]]
    ELSE IF sell_score >= buy_score /\ sell_score >= min_score(timeframe)
    THEN [direction |-> "SELL",
          strength |-> Min(sell_score, 10 * Point),
          confidence |-> [num |-> sell_score, den |-> buy_score + sell_score]]
    ELSE NoDecision

\* strength is min(score / 10.0, 1.0) in units of 1 / (10 * Point)
Decision(buy_score, sell_score, timeframe) ==
    IF buy_score > sell_score /\ buy_score >= min_score(timeframe)
    THEN [direction |-> "BUY",
          strength |-> Min(buy_score, 10 * Point),
          confidence |-> [num |-> buy_score, den |-> buy_score + sell_score]]
    ELSE IF sell_score > buy_score /\ sell_score >= min_score(timeframe)
    THEN [direction |-> "SELL",
          strength |-> Min(sell_score, 10 * Point),
          confidence |-> [num |-> sell_score, den |-> buy_score + sell_score]]
    ELSE NoDecision

\* variant: only a strength below 0.5 is discarded
StrengthTooLow_lt(strength) == 2 * strength < 10 * Point

\* strength <= 0.5
StrengthTooLow(strength) == 2 * strength <= 10 * Point

\* confidence < 0.68
ConfidenceTooLow(confidence) == ConfLt(confidence, 68)

(***************************************************************************)
(* Signal construction.  The name atr_value is read at the target price    *)
(* but is bound nowhere in generate_comprehensive_signal or in the module, *)
(* so reading it raises NameError.                                         *)
(***************************************************************************)
Unbound == [bound |-> FALSE, value |-> 0]
Bound(v) == [bound |-> TRUE, value |-> v]

\* variant: the name bound to the atr column of the current row
atr_value_row(current) == Bound(current.atr)

atr_value(current) == Unbound

\* the target price in tenths of a tick: close +- atr_value * 0.9
TargetPrice(direction, current) ==
    LET atr == atr_value(current)
    IN  IF ~atr.bound
        THEN Unbound
        ELSE IF direction = "BUY"
             THEN Bound(10 * current.close + 9 * atr.value)
             ELSE Bound(10 * current.close - 9 * atr.value)

TradingSignal(asset, timeframe, decision, current, target, atr, trend_info, buy_score, sell_score, signal_reasons, now) ==
    [asset |-> asset, timeframe |-> timeframe, signal_type |-> "multi_indicator",
     direction |-> decision.direction,
     strength |-> decision.strength,
     confidence |-> decision.confidence,
     current_price |-> current.close,
     target_price |-> target,
     entry_time |-> now,
     expiry_time |-> now + ((timeframe + 1) * 60),
     indicators |-> [rsi |-> current.rsi, macd |-> current.macd,
                     macd_signal |-> current.macd_signal,
                     trend |-> trend_info.trend,
                     trend_strength |-> trend_info.strength,
                     atr |-> atr,
                     buy_score |-> buy_score, sell_score |-> sell_score,
                     reasons |-> signal_reasons]]

(***************************************************************************)
(* The RSI and Stochastic columns of calculate_technical_indicators,       *)
(* computed bar by bar, and the dropna of generate_comprehensive_signal.   *)
(* A float is a record: not-a-number, an infinity, or a number in          *)
(* hundredths.  Sums over a rolling window stand for the window's mean     *)
(* times the window length.                                                *)
(***************************************************************************)
Hundredth == 100

NaN == [kind |-> "nan", v |-> 0]
Inf == [kind |-> "inf", v |-> 0]
Num(v) == [kind |-> "num", v |-> v]

\* a / b on floats holding the integers a and b: 0 / 0 is not-a-number,
\* x / 0 an infinity, neither raises
FloatDiv(a, b) ==
    IF b = 0
    THEN IF a = 0 THEN [kind |-> "nan", n |-> 0, d |-> 0]
                  ELSE [kind |-> "inf", n |-> a, d |-> 0]
    ELSE [kind |-> "ratio", n |-> a, d |-> b]

RsiWindow == 14
StochWindow == 14
StochSmooth == 3
\* the longest lookback of the other columns: sma_50
Lookback == 50

Bar(open, high, low, close) == [open |-> open, high |-> high, low |-> low, close |-> close]

\* the close before the first bar of a series
BasePrice == 1000

\* Well-formed candles (low <= open, close <= high) by the way they move
\* from the previous close p: no trade, one tick up, one tick down, or a
\* range around an unchanged close.
Kinds == {"flat", "up", "down", "doji"}

NextBar(kind, p) ==
    CASE kind = "flat" -> Bar(p, p, p, p)
      [] kind = "up"   -> Bar(p, p + 1, p, p + 1)
      [] kind = "down" -> Bar(p, p, p - 1, p - 1)
      [] kind = "doji" -> Bar(p, p + 1, p - 1, p)

LastClose(bars) == IF bars = << >> THEN BasePrice ELSE bars[Len(bars)].close

\* the close i bars into a run of one kind that starts from the close p
CloseAfter(kind, p, i) ==
    CASE kind = "up" -> p + i
      [] kind = "down" -> p - i
      [] OTHER -> p

\* bars followed by a run of n bars of one kind
Extend(bars, kind, n) ==
    bars \o [i \in 1..n |-> NextBar(kind, CloseAfter(kind, LastClose(bars), i - 1))]

RECURSIVE WindowSum(_, _, _)
WindowSum(x, lo, hi) == IF lo > hi THEN 0 ELSE x[hi] + WindowSum(x, lo, hi - 1)

RECURSIVE WindowMin(_, _, _)
WindowMin(x, lo, hi) ==
    IF lo = hi THEN x[hi] ELSE Min(x[hi], WindowMin(x, lo, hi - 1))

RECURSIVE WindowMax(_, _, _)
WindowMax(x, lo, hi) ==
    IF lo = hi THEN x[hi] ELSE Max(x[hi], WindowMax(x, lo, hi - 1))

\* delta.where(delta > 0, 0): the first delta is not-a-number and is
\* replaced by 0 like every delta that is not positive
GainOf(bars) ==
    [i \in 1..Len(bars) |->
        IF i > 1 /\ bars[i].close - bars[i - 1].close > 0
        THEN bars[i].close - bars[i - 1].close ELSE 0]

\* -delta.where(delta < 0, 0)
LossOf(bars) ==
    [i \in 1..Len(bars) |->
        IF i > 1 /\ bars[i].close - bars[i - 1].close < 0
        THEN bars[i - 1].close - bars[i].close ELSE 0]

\* 14 times the rolling mean of the gains (of the losses) at row i >= 14
GainSum(bars, i) == WindowSum(GainOf(bars), i - RsiWindow + 1, i)
LossSum(bars, i) == WindowSum(LossOf(bars), i - RsiWindow + 1, i)

\* 100 - (100 / (1 + rs))
RsiOf(rs) ==
    CASE rs.kind = "nan" -> NaN
      [] rs.kind = "inf" -> Num(100 * Hundredth)
      [] rs.kind = "ratio" ->
            Num(100 * Hundredth - (100 * Hundredth * rs.d) \div (rs.d + rs.n))

RsiColumn(bars) ==
    [i \in 1..Len(bars) |->
        IF i < RsiWindow THEN NaN
        ELSE RsiOf(FloatDiv(GainSum(bars, i), LossSum(bars, i)))]

Low14(bars, i) == WindowMin([j \in 1..Len(bars) |-> bars[j].low], i - StochWindow + 1, i)
High14(bars, i) == WindowMax([j \in 1..Len(bars) |-> bars[j].high], i - StochWindow + 1, i)

\* variant: a zero range is caught and gives 0
StochKOf_guarded(q) ==
    CASE q.kind \in {"nan", "inf"} -> Num(0)
      [] q.kind = "ratio" -> Num((100 * Hundredth * q.n) \div q.d)

\* 100 * ((close - low_14) / (high_14 - low_14))
StochKOf(q) ==
    CASE q.kind = "nan" -> NaN
      [] q.kind = "inf" -> Inf
      [] q.kind = "ratio" -> Num((100 * Hundredth * q.n) \div q.d)

StochKColumn(bars) ==
    [i \in 1..Len(bars) |->
        IF i < StochWindow THEN NaN
        ELSE StochKOf(FloatDiv(bars[i].close - Low14(bars, i),
                               High14(bars, i) - Low14(bars, i)))]

\* stoch_k.rolling(window=3).mean(): not-a-number unless the three values
\* are there
StochDColumn(stoch_k) ==
    [i \in 1..Len(stoch_k) |->
        IF i < StochSmooth THEN NaN
        ELSE LET window == { stoch_k[j] : j \in (i - StochSmooth + 1)..i }
             IN  IF \E x \in window : x.kind = "nan" THEN NaN
                 ELSE IF \E x \in window : x.kind = "inf" THEN Inf
                 ELSE Num(WindowSum([j \in 1..Len(stoch_k) |-> stoch_k[j].v],
                                    i - StochSmooth + 1, i) \div StochSmooth)]

\* the frame object: its column names, its bars and the columns modelled
BarColumns == {"open", "high", "low", "close", "volume"}

\* every bar here has volume, so the two volume columns are computed
IndicatorColumns ==
    {"ema_9", "ema_21", "ema_50", "sma_20", "sma_50", "rsi", "macd",
     "macd_signal", "macd_hist", "bb_middle", "bb_upper", "bb_lower",
     "bb_width", "atr", "stoch_k", "stoch_d", "momentum", "volume_sma",
     "volume_ratio"}

Frame(bars) ==
    [columns |-> BarColumns, bars |-> bars,
     rsi |-> << >>, stoch_k |-> << >>, stoch_d |-> << >>]

\* df[...] = ... assigns each column on the frame passed in, which is also
\* the frame returned
calculate_technical_indicators(f) ==
    [f EXCEPT !.columns = @ \cup IndicatorColumns,
              !.rsi = RsiColumn(f.bars),
              !.stoch_k = StochKColumn(f.bars),
              !.stoch_d = StochDColumn(StochKColumn(f.bars))]

\* a row dropna keeps: no column is not-a-number (an infinity is kept); the
\* columns not modelled are defined from row 50 on
Complete(f, i) ==
    /\ i >= Lookback
    /\ f.rsi[i].kind # "nan"
    /\ f.stoch_k[i].kind # "nan"
    /\ f.stoch_d[i].kind # "nan"

\* df.dropna(): the rows kept, in their order, as positions in the frame
dropna(f) ==
    LET keep == { i \in 1..Len(f.bars) : Complete(f, i) }
    IN  [r \in 1..Cardinality(keep) |->
            CHOOSE i \in keep : Cardinality({ j \in keep : j <= i }) = r]

MaxSegments == 2
MaxBars == 121
SegLens == {1, 14, 106}
\* the timeframe of the calls on bar-level frames
BarTimeframe == 1

(***************************************************************************)
(* The price store (table price_data) and the reads of it.  A row is       *)
(* written with its key (asset, timeframe, timestamp) and its prices, for  *)
(* which close stands; the id column is read by no query and is left out.  *)
(***************************************************************************)
StoreAssets == {"EURUSD", "GBPUSD"}
StoreTimeframes == {1, 5}
Timestamps == {60, 120, 180}
Closes == {1, 2}
Limits == {1, 2, 250}
MaxSaves == 3

Row(a, tf, ts, close) == [asset |-> a, timeframe |-> tf, timestamp |-> ts, close |-> close]

SameKey(r1, r2) ==
    /\ r1.asset = r2.asset
    /\ r1.timeframe = r2.timeframe
    /\ r1.timestamp = r2.timestamp

\* variant: a plain INSERT into a table without the UNIQUE constraint
Insert_plain(rows, row) == rows \cup {row}

\* INSERT OR REPLACE under UNIQUE(asset, timeframe, timestamp): the row of
\* the same key, if any, is deleted and the new row inserted
InsertOrReplace(rows, row) == { r \in rows : ~SameKey(r, row) } \cup {row}

\* ORDER BY timestamp DESC (rows of equal timestamp, which the constraint
\* rules out, would come in the order of their close)
OrderDesc(rows) ==
    [k \in 1..Cardinality(rows) |->
        CHOOSE x \in rows :
            Cardinality({ y \in rows :
                            \/ y.timestamp > x.timestamp
                            \/ y.timestamp = x.timestamp /\ y.close >= x.close }) = k]

\* get_latest_prices: SELECT ... WHERE asset = ? AND timeframe = ?
\* ORDER BY timestamp DESC LIMIT ?
get_latest_prices(rows, a, tf, limit) ==
    LET matching == OrderDesc({ r \in rows : r.asset = a /\ r.timeframe = tf })
    IN  SubSeq(matching, 1, Min(limit, Len(matching)))

\* pd.to_datetime(unit='s'): a time stamp of whole seconds and nanoseconds
to_datetime(ts) == [sec |-> ts, ns |-> 0]

\* the order of the index
Before(d1, d2) == d1.sec < d2.sec \/ (d1.sec = d2.sec /\ d1.ns < d2.ns)

\* the frame get_price_data builds from the list: timestamp converted and
\* made the index, then sort_index in ascending order
SortedFrame(data) ==
    LET indexed == { [index |-> to_datetime(data[k].timestamp), close |-> data[k].close,
                      pos |-> k] : k \in 1..Len(data) }
    IN  [k \in 1..Len(data) |->
            LET x == CHOOSE x \in indexed :
                        Cardinality({ y \in indexed :
                                        \/ Before(y.index, x.index)
                                        \/ y.index = x.index /\ y.pos <= x.pos }) = k
            IN  [index |-> x.index, close |-> x.close]]

NoQuery == [asset |-> "", timeframe |-> 0, limit |-> 0, ok |-> FALSE]
NoSave == [ok |-> FALSE, row |-> Row("", 0, 0, 0)]

(***************************************************************************)
(* analyze_asset around generate_comprehensive_signal.                     *)
(***************************************************************************)
\* get_price_data: the bars the store returns, as a frame; an empty frame
\* when the store has none (or its read failed) or when the try block raises
get_price_data(provided) ==
    IF provided.kind \in {"bars", "malformed"} THEN provided.series ELSE EmptyDF

\* calculate_technical_indicators computes every column, unless a column of
\* the stored bars cannot be computed on (the store does not validate what
\* it saves): its except clause then logs and returns the frame as it is,
\* without the indicator columns
IndicatorsComputed(provided) == provided.kind # "malformed"

\* the fixed rule that skips the 5-minute timeframe
\* variant: the rule on the 15-minute timeframe
SkipTimeframe_15(timeframe) == timeframe = 15

SkipTimeframe(timeframe) == timeframe = 5

\* variant: the except clause lets the exception through
except_handler_reraise(exc) == Raised(exc)

\* the except clause of analyze_asset: log the error, return None
except_handler(exc) == None

\* what analyze_asset returns once generate_comprehensive_signal has ended
analyze_asset_tail(out) ==
    IF out.kind = "raise"
    THEN except_handler(out.exc)
    ELSE IF out.kind = "signal" /\ ConfGe(out.signal.confidence, 79)
    THEN out
    ELSE None

NotCalled == [kind |-> "not_called", exc |-> "", signal |-> NoSignal]

Provided ==
    { [kind |-> k, series |-> EmptyDF] : k \in {"empty", "raise"} }
    \cup { [kind |-> "bars", series |-> s] : s \in FullSeries \cup ProbeSeries }
    \cup { [kind |-> "malformed", series |-> s] : s \in ProbeSeries }

(***************************************************************************)
(* TradingSignalBot: its construction from a configuration file, and one   *)
(* scan (run_analysis: generate_signals, then process_signals).            *)
(* min_confidence is in hundredths.                                        *)
(***************************************************************************)
Config(has_assets, assets, has_min, min_conf, telegram) ==
    [has_assets |-> has_assets, assets |-> assets,
     has_min_confidence |-> has_min, min_confidence |-> min_conf,
     telegram_enabled |-> telegram]

NoConfig == Config(FALSE, << >>, FALSE, 0, FALSE)

\* the dictionary load_config returns when the file is not found
DefaultConfig ==
    Config(TRUE, << "EURUSD", "GBPUSD", "USDJPY", "USDCAD", "AUDUSD" >>, TRUE, 80, TRUE)

\* the asset list of __init__ for a configuration without 'assets'
DefaultAssets ==
    << "EURUSD", "GBPUSD", "USDJPY", "USDCHF", "USDCAD",
       "AUDUSD", "NZDUSD", "EURGBP", "EURJPY", "GBPJPY" >>

AssetLists == { << >>, << "EURUSD" >>, << "EURUSD", "GBPUSD" >>, << "GBPUSD", "EURUSD" >> }
MinConfidences == {70, 80, 90}

\* what open(config_path) finds: no file, a file that is not JSON, or a
\* JSON object
ConfigFiles ==
    { [kind |-> k, config |-> NoConfig] : k \in {"missing", "invalid"} }
    \cup { [kind |-> "json", config |-> Config(TRUE, a, TRUE, m, t)] :
             a \in AssetLists, m \in MinConfidences, t \in BOOLEAN }
    \cup { [kind |-> "json", config |-> Config(FALSE, << >>, has_min, IF has_min THEN 90 ELSE 0, t)] :
             has_min \in BOOLEAN, t \in BOOLEAN }

\* load_config: only FileNotFoundError is caught, and its handler reads
\* self.logger before it returns the defaults; on an object that has no such
\* attribute yet that read raises AttributeError
load_config(file, logger_bound) ==
    CASE file.kind = "json" -> [kind |-> "return", config |-> file.config, exc |-> "", warned |-> FALSE]
      [] file.kind = "invalid" -> [kind |-> "raise", config |-> NoConfig, exc |-> "JSONDecodeError", warned |-> FALSE]
      [] file.kind = "missing" ->
            IF logger_bound
            THEN [kind |-> "return", config |-> DefaultConfig, exc |-> "", warned |-> TRUE]
            ELSE [kind |-> "raise", config |-> NoConfig, exc |-> "AttributeError", warned |-> FALSE]

\* whether self.logger exists when __init__ calls load_config: setup_logging,
\* which assigns it, runs three statements later
LoggerBoundAtLoad == FALSE

\* self.config.get('assets', [...])
AssetsOf(cfg) == IF cfg.has_assets THEN cfg.assets ELSE DefaultAssets

RecordCounts == {99, 100}
MaxScans == 2

\* check_data_availability
DataReady(records) == ~(records < 100)

\* self.config.get('min_confidence', 0.7)
MinConfidenceOf(cfg) == IF cfg.has_min_confidence THEN cfg.min_confidence ELSE 70

BotTimeframes == << 1, 5, 15 >>

\* what analyze_asset can hand back for a timeframe: None, or whatever comes
\* of a decision that has passed the post-filters and is built into a signal
ScanConfidences == { [num |-> 79, den |-> 100], [num |-> 9, den |-> 10], [num |-> 1, den |-> 1] }

AnalyzeAssetReturns(a, tf) ==
    {None} \cup
    { analyze_asset_tail(
          LET d == [direction |-> "BUY", strength |-> 6 * Point, confidence |-> c]
              row == IndicatorRow(10015, 10014, 10012, 10010, 10006, 25, 2, 0, 10015, 100, 10, 10, AtrChoice)
              target == TargetPrice(d.direction, row)
          IN  IF SkipTimeframe(tf) THEN None
              ELSE IF ~target.bound THEN Raised("NameError")
              ELSE Returned(TradingSignal(a, tf, d, row, target.value, atr_value(row).value,
                                          [trend |-> "BULLISH", strength |-> StrengthOne],
                                          6 * Point, 0, << >>, 1000))) :
        c \in ScanConfidences }

\* the (asset, timeframe) pairs in the order of the two nested loops
ScanPairs(assets) ==
    [k \in 1..(Len(assets) * Len(BotTimeframes)) |->
        << assets[((k - 1) \div Len(BotTimeframes)) + 1],
           BotTimeframes[((k - 1) % Len(BotTimeframes)) + 1] >>]

\* signals.append(signal) for every result that is a signal of confidence
\* >= min_confidence, in loop order
RECURSIVE Collected(_, _, _)
Collected(results, min_conf, k) ==
    IF k = 0 THEN << >>
    ELSE LET earlier == Collected(results, min_conf, k - 1)
         IN  IF results[k].kind = "signal" /\ ConfGe(results[k].signal.confidence, min_conf)
             THEN Append(earlier, results[k].signal)
             ELSE earlier

\* signals.sort(key=confidence, reverse=True): descending, equal confidences
\* in their order of arrival
SortByConfidence(signals) ==
    LET above(i, j) ==
            \/ signals[i].confidence.num * signals[j].confidence.den
                  > signals[j].confidence.num * signals[i].confidence.den
            \/ /\ signals[i].confidence.num * signals[j].confidence.den
                     = signals[j].confidence.num * signals[i].confidence.den
               /\ i <= j
    IN  [k \in 1..Len(signals) |->
            signals[CHOOSE j \in 1..Len(signals) :
                       Cardinality({ i \in 1..Len(signals) : above(i, j) }) = k]]

\* generate_signals: nothing unless the store has 100 records
generate_signals(ready, results, cfg) ==
    IF ~ready THEN << >>
    ELSE SortByConfidence(Collected(results, MinConfidenceOf(cfg), Len(results)))

\* top_signals = signals[:3]
TopSignals(signals) == SubSeq(signals, 1, Min(3, Len(signals)))

\* the signals of top that send_telegram_signal delivered: none with
\* telegram disabled, else those whose request got status 200
RECURSIVE Delivered(_, _, _)
Delivered(top, posted, k) ==
    IF k = 0 THEN << >>
    ELSE IF posted[k] THEN Append(Delivered(top, posted, k - 1), top[k])
    ELSE Delivered(top, posted, k - 1)

VARIABLES
    pc,              \* where the call in progress stands
    caller,          \* "analyze_asset", or "direct" for a direct call
    asset, timeframe,
    provided,        \* what the price store holds for (asset, timeframe)
    df,              \* the frame under analysis
    trend_info,
    rules_run,       \* number of scoring rules evaluated by this call
    buy_score, sell_score, signal_reasons,
    rule_adds,       \* what each scoring rule added, in the order they ran
    decision,        \* direction, strength and confidence of the decision step
    target_price,
    gcs_outcome,     \* what generate_comprehensive_signal produced
    result,          \* what the call returned to its caller
    run,             \* how many times this same call has been made
    first_result,    \* the result of its first run
    ind_pc,          \* where the call on the bar-level frame stands
    segments,        \* number of runs of bars the caller's frame was built from
    frame,           \* the frame object the caller holds
    passed,          \* that frame as it was when the caller passed it in
    kept,            \* the rows dropna kept, as positions in the frame
    current_idx, prev_idx,  \* positions of the rows read as current and prev
    store_pc,        \* "idle", or "fetched" while a caller holds a frame
    price_data,      \* the rows of the table
    saves,           \* number of save_price_data calls so far
    last_save,       \* the last row saved, until rows are deleted
    query,           \* the arguments of the read in progress
    fetched,         \* the list get_latest_prices returned
    series,          \* the frame get_price_data returned
    bot_pc,          \* where the construction of the bot, or the bot, stands
    config_file,     \* what is at config_path
    config,          \* self.config
    logger_bound,    \* whether self.logger has been assigned
    warned,          \* whether the missing file has been logged as a warning
    bot_assets,      \* self.assets
    construct_exc,   \* the exception __init__ raised, "" when none
    signals,         \* the list generate_signals returned in the last scan
    sent,            \* the signals delivered in the last scan, in order
    signals_sent,    \* self.signals_sent
    total_records,   \* stats['total_records'] as the last scan read it
    scans            \* the scans run_analysis has made on this bot

signal_vars == << pc, caller, asset, timeframe, provided, df, trend_info,
                  rules_run, buy_score, sell_score, signal_reasons, rule_adds,
                  decision, target_price, gcs_outcome, result, run, first_result >>

indicator_vars == << ind_pc, segments, frame, passed, kept, current_idx, prev_idx >>

store_vars == << store_pc, price_data, saves, last_save, query, fetched, series >>

bot_vars == << bot_pc, config_file, config, logger_bound, warned, bot_assets,
               construct_exc, signals, sent, signals_sent, total_records, scans >>

vars == << signal_vars, indicator_vars, store_vars, bot_vars >>

Init ==
    /\ pc = "idle"
    /\ caller = "none"
    /\ asset = ""
    /\ timeframe = 0
    /\ provided = [kind |-> "empty", series |-> EmptyDF]
    /\ df = EmptyDF
    /\ trend_info = NoTrend
    /\ rules_run = 0
    /\ buy_score = 0
    /\ sell_score = 0
    /\ signal_reasons = << >>
    /\ rule_adds = << >>
    /\ decision = NoDecision
    /\ target_price = Unbound
    /\ gcs_outcome = NotCalled
    /\ result = None
    /\ run = 0
    /\ first_result = None
    /\ ind_pc = "build"
    /\ segments = 0
    /\ frame = Frame(<< >>)
    /\ passed = Frame(<< >>)
    /\ kept = << >>
    /\ current_idx = 0
    /\ prev_idx = 0
    /\ store_pc = "idle"
    /\ price_data = {}
    /\ saves = 0
    /\ last_save = NoSave
    /\ query = NoQuery
    /\ fetched = << >>
    /\ series = << >>
    /\ bot_pc = "new"
    /\ config_file = [kind |-> "missing", config |-> NoConfig]
    /\ config = NoConfig
    /\ logger_bound = FALSE
    /\ warned = FALSE
    /\ bot_assets = << >>
    /\ construct_exc = ""
    /\ signals = << >>
    /\ sent = << >>
    /\ signals_sent = 0
    /\ total_records = 0
    /\ scans = 0

\* the locals of a call before it has run
FreshLocals ==
    /\ trend_info' = NoTrend
    /\ rules_run' = 0
    /\ buy_score' = 0
    /\ sell_score' = 0
    /\ signal_reasons' = << >>
    /\ rule_adds' = << >>
    /\ decision' = NoDecision
    /\ target_price' = Unbound

\* generate_comprehensive_signal ends with out
Finish(out) ==
    /\ gcs_outcome' = out
    /\ result' = IF caller = "analyze_asset" THEN analyze_asset_tail(out) ELSE out
    /\ pc' = "done"

\* a call starts: analyze_asset up to the call of generate_comprehensive_signal,
\* or generate_comprehensive_signal called with the frame itself
Enter(c, a, tf, prov) ==
    /\ caller' = c
    /\ asset' = a
    /\ timeframe' = tf
    /\ provided' = prov
    /\ df' = get_price_data(prov)
    /\ FreshLocals
    /\ gcs_outcome' = NotCalled
    /\ result' = None
    /\ pc' = IF c = "analyze_asset" /\ (get_price_data(prov).len = 0 \/ SkipTimeframe(tf))
             THEN "done"
             ELSE "gcs"
    /\ UNCHANGED << indicator_vars, store_vars, bot_vars >>

AnalyzeAsset ==
    /\ pc = "idle"
    /\ \E a \in Assets, tf \in Timeframes, prov \in Provided :
          Enter("analyze_asset", a, tf, prov)
    /\ run' = 1
    /\ first_result' = None

GenerateComprehensiveSignal ==
    /\ pc = "idle"
    /\ \E a \in Assets, tf \in DirectTimeframes, s \in ProbeSeries :
          Enter("direct", a, tf, [kind |-> "bars", series |-> s])
    /\ run' = 1
    /\ first_result' = None

\* the minimum-data check, the indicators, dropna, the 20-row check,
\* detect_trend and the trend gate; on a frame without indicator columns
\* no row is dropped and detect_trend's read of current['ema_9'] raises
Prepare ==
    /\ pc = "gcs"
    /\ IF df.len < min_required(timeframe)
       THEN Finish(None) /\ UNCHANGED trend_info
       ELSE IF ~IndicatorsComputed(provided)
       THEN Finish(Raised("KeyError")) /\ UNCHANGED trend_info
       ELSE IF df.clean_len < 20
       THEN Finish(None) /\ UNCHANGED trend_info
       ELSE /\ trend_info' = detect_trend(df)
            /\ IF TrendGateWeak(detect_trend(df))
               THEN Finish(None)
               ELSE pc' = "score" /\ UNCHANGED << gcs_outcome, result >>
    /\ UNCHANGED << caller, asset, timeframe, provided, df, rules_run, buy_score,
                    sell_score, signal_reasons, rule_adds, decision,
                    target_price, run, first_result >>
    /\ UNCHANGED << indicator_vars, store_vars, bot_vars >>

\* the scoring rules, all of them, in order
Score ==
    /\ pc = "score"
    /\ LET rs == Rules(df.current, df.prev, trend_info)
       IN  /\ buy_score' = SumBuy(rs)
           /\ sell_score' = SumSell(rs)
           /\ signal_reasons' = AllReasons(rs)
           /\ rule_adds' = rs
           /\ rules_run' = Len(rs)
    /\ pc' = "decide"
    /\ UNCHANGED << caller, asset, timeframe, provided, df, trend_info, decision,
                    target_price, gcs_outcome, result, run, first_result >>
    /\ UNCHANGED << indicator_vars, store_vars, bot_vars >>

\* total_score == 0, the decision step and the two post-filters
Decide ==
    /\ pc = "decide"
    /\ IF buy_score + sell_score = 0
       THEN Finish(None) /\ UNCHANGED decision
       ELSE LET d == Decision(buy_score, sell_score, timeframe)
            IN  /\ decision' = d
                /\ IF d.direction = "NONE"
                   THEN Finish(None)
                   ELSE IF StrengthTooLow(d.strength)
                   THEN Finish(None)
                   ELSE IF ConfidenceTooLow(d.confidence)
                   THEN Finish(None)
                   ELSE pc' = "construct" /\ UNCHANGED << gcs_outcome, result >>
    /\ UNCHANGED << caller, asset, timeframe, provided, df, trend_info, rules_run,
                    buy_score, sell_score, signal_reasons, rule_adds,
                    target_price, run, first_result >>
    /\ UNCHANGED << indicator_vars, store_vars, bot_vars >>

\* the target price, the entry and expiry times and the TradingSignal
Construct ==
    /\ pc = "construct"
    /\ \E now \in Times :
          LET target == TargetPrice(decision.direction, df.current)
          IN  /\ target_price' = target
              /\ IF ~target.bound
                 THEN Finish(Raised("NameError"))
                 ELSE Finish(Returned(TradingSignal(asset, timeframe, decision,
                                 df.current, target.value,
                                 atr_value(df.current).value, trend_info,
                                 buy_score, sell_score, signal_reasons, now)))
    /\ UNCHANGED << caller, asset, timeframe, provided, df, trend_info, rules_run,
                    buy_score, sell_score, signal_reasons, rule_adds, decision,
                    run, first_result >>
    /\ UNCHANGED << indicator_vars, store_vars, bot_vars >>

\* the same call made again on the same asset, timeframe and bar series
Rerun ==
    /\ pc = "done"
    /\ run < MaxRuns
    /\ Enter(caller, asset, timeframe, provided)
    /\ run' = run + 1
    /\ first_result' = IF run = 1 THEN result ELSE first_result

\* the caller drops the result; the next call is a new one
Reset ==
    /\ pc = "done"
    /\ pc' = "idle"
    /\ caller' = "none"
    /\ asset' = ""
    /\ timeframe' = 0
    /\ provided' = [kind |-> "empty", series |-> EmptyDF]
    /\ df' = EmptyDF
    /\ FreshLocals
    /\ gcs_outcome' = NotCalled
    /\ result' = None
    /\ run' = 0
    /\ first_result' = None
    /\ UNCHANGED << indicator_vars, store_vars, bot_vars >>

Next ==
    \/ AnalyzeAsset
    \/ GenerateComprehensiveSignal
    \/ Prepare
    \/ Score
    \/ Decide
    \/ Construct
    \/ Rerun
    \/ Reset

Spec == Init /\ [][Next]_vars

(***************************************************************************)
(* Calls on a frame of bars: calculate_technical_indicators called on its  *)
(* own, and generate_comprehensive_signal up to the rows it reads as       *)
(* current and prev.                                                       *)
(***************************************************************************)
\* the caller extends its frame by a run of n bars of one kind
AppendSegment ==
    /\ ind_pc = "build"
    /\ segments < MaxSegments
    /\ \E kind \in Kinds, n \in SegLens :
          /\ Len(frame.bars) + n <= MaxBars
          /\ frame' = Frame(Extend(frame.bars, kind, n))
    /\ segments' = segments + 1
    /\ UNCHANGED << ind_pc, passed, kept, current_idx, prev_idx >>
    /\ UNCHANGED << signal_vars, store_vars, bot_vars >>

CalculateTechnicalIndicators ==
    /\ ind_pc = "build"
    /\ frame.bars # << >>
    /\ passed' = frame
    /\ frame' = calculate_technical_indicators(frame)
    /\ ind_pc' = "computed"
    /\ UNCHANGED << segments, kept, current_idx, prev_idx >>
    /\ UNCHANGED << signal_vars, store_vars, bot_vars >>

\* generate_comprehensive_signal from the minimum-data check to
\* current = df.iloc[-1] and prev = df.iloc[-2] of the frame dropna returns
SelectRows ==
    /\ ind_pc = "build"
    /\ passed' = frame
    /\ IF Len(frame.bars) < min_required(BarTimeframe)
       THEN /\ ind_pc' = "abstained"
            /\ UNCHANGED << frame, kept, current_idx, prev_idx >>
       ELSE LET f == calculate_technical_indicators(frame)
                rows == dropna(f)
            IN  /\ frame' = f
                /\ kept' = rows
                /\ IF Len(rows) < 20
                   THEN ind_pc' = "abstained" /\ UNCHANGED << current_idx, prev_idx >>
                   ELSE /\ current_idx' = rows[Len(rows)]
                        /\ prev_idx' = rows[Len(rows) - 1]
                        /\ ind_pc' = "selected"
    /\ UNCHANGED segments
    /\ UNCHANGED << signal_vars, store_vars, bot_vars >>

\* the caller drops the frame and builds another
DropFrame ==
    /\ ind_pc # "build"
    /\ ind_pc' = "build"
    /\ segments' = 0
    /\ frame' = Frame(<< >>)
    /\ passed' = Frame(<< >>)
    /\ kept' = << >>
    /\ current_idx' = 0
    /\ prev_idx' = 0
    /\ UNCHANGED << signal_vars, store_vars, bot_vars >>

NextIndicators ==
    \/ AppendSegment
    \/ CalculateTechnicalIndicators
    \/ SelectRows
    \/ DropFrame

SpecIndicators == Init /\ [][NextIndicators]_vars

(***************************************************************************)
(* Writes to the price store and reads from it.                            *)
(***************************************************************************)
\* save_price_data (save_candle calls it): a dictionary without one of the
\* keys read raises inside the try block and nothing is written
SavePriceData ==
    /\ store_pc = "idle"
    /\ saves < MaxSaves
    /\ saves' = saves + 1
    /\ \/ \E a \in StoreAssets, tf \in StoreTimeframes, ts \in Timestamps, c \in Closes :
             /\ price_data' = InsertOrReplace(price_data, Row(a, tf, ts, c))
             /\ last_save' = [ok |-> TRUE, row |-> Row(a, tf, ts, c)]
       \/ UNCHANGED << price_data, last_save >>
    /\ UNCHANGED << store_pc, query, fetched, series >>
    /\ UNCHANGED << signal_vars, indicator_vars, bot_vars >>

\* cleanup_old_data: DELETE ... WHERE timestamp < cutoff
CleanupOldData ==
    /\ store_pc = "idle"
    /\ \E cutoff \in Timestamps :
          price_data' = { r \in price_data : ~(r.timestamp < cutoff) }
    /\ last_save' = NoSave
    /\ UNCHANGED << store_pc, saves, query, fetched, series >>
    /\ UNCHANGED << signal_vars, indicator_vars, bot_vars >>

\* SignalGenerator.get_price_data: the list from get_latest_prices (empty
\* when the read raised), an empty frame for an empty list, else the frame
\* sorted by its index
GetPriceData ==
    /\ store_pc = "idle"
    /\ \E a \in StoreAssets, tf \in StoreTimeframes, limit \in Limits, ok \in BOOLEAN :
          LET data == IF ok THEN get_latest_prices(price_data, a, tf, limit) ELSE << >>
          IN  /\ query' = [asset |-> a, timeframe |-> tf, limit |-> limit, ok |-> ok]
              /\ fetched' = data
              /\ series' = IF data = << >> THEN << >> ELSE SortedFrame(data)
    /\ store_pc' = "fetched"
    /\ UNCHANGED << price_data, saves, last_save >>
    /\ UNCHANGED << signal_vars, indicator_vars, bot_vars >>

\* the caller is done with the frame
ReleaseFrame ==
    /\ store_pc = "fetched"
    /\ store_pc' = "idle"
    /\ query' = NoQuery
    /\ fetched' = << >>
    /\ series' = << >>
    /\ UNCHANGED << price_data, saves, last_save >>
    /\ UNCHANGED << signal_vars, indicator_vars, bot_vars >>

NextStore ==
    \/ SavePriceData
    \/ CleanupOldData
    \/ GetPriceData
    \/ ReleaseFrame

SpecStore == Init /\ [][NextStore]_vars

(***************************************************************************)
(* The bot: construction, scans, and the end of the process.               *)
(***************************************************************************)
FreshBot ==
    /\ config' = NoConfig
    /\ logger_bound' = FALSE
    /\ warned' = FALSE
    /\ bot_assets' = << >>
    /\ signals' = << >>
    /\ sent' = << >>
    /\ signals_sent' = 0
    /\ total_records' = 0
    /\ scans' = 0

\* TradingSignalBot.__init__: load_config, the database and the generator,
\* setup_logging, then the fields
TradingSignalBotInit ==
    /\ bot_pc = "new"
    /\ \E file \in ConfigFiles :
          LET loaded == load_config(file, LoggerBoundAtLoad)
          IN  /\ config_file' = file
              /\ IF loaded.kind = "raise"
                 THEN /\ bot_pc' = "failed"
                      /\ construct_exc' = loaded.exc
                      /\ FreshBot
                 ELSE /\ bot_pc' = "ready"
                      /\ construct_exc' = ""
                      /\ config' = loaded.config
                      /\ warned' = loaded.warned
                      /\ logger_bound' = TRUE
                      /\ bot_assets' = AssetsOf(loaded.config)
                      /\ signals_sent' = 0
                      /\ UNCHANGED << signals, sent, total_records, scans >>
    /\ UNCHANGED << signal_vars, indicator_vars, store_vars >>

\* run_analysis: generate_signals over every asset and timeframe, then
\* process_signals on what it returned
RunAnalysis ==
    /\ bot_pc = "ready"
    /\ scans < MaxScans
    /\ \E records \in RecordCounts :
          LET pairs == ScanPairs(bot_assets)
              each == UNION { AnalyzeAssetReturns(pairs[k][1], pairs[k][2]) : k \in 1..Len(pairs) }
          IN  \E results \in [1..Len(pairs) -> each] :
                 /\ \A k \in 1..Len(pairs) : results[k] \in AnalyzeAssetReturns(pairs[k][1], pairs[k][2])
                 /\ LET found == generate_signals(DataReady(records), results, config)
                        top == TopSignals(found)
                    IN  \E posted \in [1..Len(top) -> BOOLEAN] :
                           /\ ~config.telegram_enabled => \A k \in 1..Len(top) : ~posted[k]
                           /\ total_records' = records
                           /\ signals' = found
                           /\ sent' = Delivered(top, posted, Len(top))
                           /\ signals_sent' = signals_sent + Len(Delivered(top, posted, Len(top)))
    /\ scans' = scans + 1
    /\ UNCHANGED << bot_pc, config_file, config, logger_bound, warned, bot_assets, construct_exc >>
    /\ UNCHANGED << signal_vars, indicator_vars, store_vars >>

\* the process ends, after main has logged the fatal error or on shutdown
Exit ==
    /\ bot_pc \in {"failed", "ready"}
    /\ bot_pc' = "new"
    /\ config_file' = [kind |-> "missing", config |-> NoConfig]
    /\ construct_exc' = ""
    /\ FreshBot
    /\ UNCHANGED << signal_vars, indicator_vars, store_vars >>

NextBot ==
    \/ TradingSignalBotInit
    \/ RunAnalysis
    \/ Exit

SpecBot == Init /\ [][NextBot]_vars


(***************************************************************************)
(* Properties.                                                             *)
(***************************************************************************)
Passed ==
    /\ decision.direction # "NONE"
    /\ ~StrengthTooLow(decision.strength)
    /\ ~ConfidenceTooLow(decision.confidence)

\* C1: for timeframe 1, 5 or 15, a series with fewer bars than the minimum of
\* that timeframe (120, 150, 200) gives no signal, from
\* generate_comprehensive_signal and from analyze_asset alike.
C1_ShortSeriesNoSignal ==
    (/\ pc = "done"
     /\ \/ timeframe = 1 /\ df.len < 120
        \/ timeframe = 5 /\ df.len < 150
        \/ timeframe = 15 /\ df.len < 200)
    => /\ result = None
       /\ gcs_outcome.kind \in {"none", "not_called"}

\* a series one bar short of the 15-minute minimum, with a tail that would
\* pass every later gate, has gone through generate_comprehensive_signal
C1_Witness ==
    /\ pc = "done"
    /\ timeframe = 15
    /\ df.len = 199
    /\ detect_trend(df).strength = StrengthOne
    /\ gcs_outcome = None
    /\ result = None

\* C2: analyze_asset with timeframe 5 returns no signal whatever the bar
\* history holds; the analysis is disabled entirely, so
\* generate_comprehensive_signal is not run at all.
C2_M5Disabled ==
    (pc = "done" /\ caller = "analyze_asset" /\ timeframe = 5)
    => (result = None /\ gcs_outcome = NotCalled)

\* a 5-minute call on a long series with a full-strength trend has returned
C2_Witness ==
    /\ pc = "done"
    /\ caller = "analyze_asset"
    /\ timeframe = 5
    /\ df.len >= 150
    /\ detect_trend(df).strength = StrengthOne
    /\ result = None

\* C4: when buy_score equals sell_score after the scoring rules have run,
\* the decision step selects no direction and
\* generate_comprehensive_signal returns no signal, whatever the magnitude.
C4_TieNoSignal ==
    (pc = "done" /\ rules_run > 0 /\ buy_score = sell_score)
    => (decision.direction = "NONE" /\ gcs_outcome = None)

\* a tie of two scores that both meet the minimum score
C4_Witness ==
    /\ pc = "done"
    /\ rules_run > 0
    /\ buy_score = sell_score
    /\ buy_score >= min_score(timeframe)
    /\ gcs_outcome = None

\* C5: a direction that survives every gate (timeframe not 5, enough bars,
\* trend strength >= 0.6, winning score strictly larger and >= the minimum
\* score, strength > 0.5, confidence >= 0.79) is returned by
\* generate_comprehensive_signal as a TradingSignal with that direction and
\* emitted by analyze_asset.
C5_SurvivorEmitted ==
    (/\ pc = "done"
     /\ caller = "analyze_asset"
     /\ Passed
     /\ ConfGe(decision.confidence, 79))
    => /\ gcs_outcome.kind = "signal"
       /\ gcs_outcome.signal.direction = decision.direction
       /\ result = gcs_outcome

\* C6: once signal construction has run, the target price is
\* close + 0.9 * ATR for BUY and close - 0.9 * ATR for SELL, ATR being the
\* atr column of the current row (prices in tenths of a tick).
C6_TargetPrice ==
    (pc = "done" /\ Passed)
    => /\ target_price.bound
       /\ target_price.value =
             IF decision.direction = "BUY"
             THEN 10 * df.current.close + 9 * df.current.atr
             ELSE 10 * df.current.close - 9 * df.current.atr

\* C7: analyze_asset never raises to its caller; on an empty store result,
\* a read error, a short series, or a failure inside
\* generate_comprehensive_signal it returns no signal.
C7_NeverRaises ==
    (pc = "done" /\ caller = "analyze_asset")
    => /\ result.kind \in {"none", "signal"}
       /\ (\/ provided.kind # "bars"
           \/ df.len < min_required(timeframe)
           \/ gcs_outcome.kind = "raise")
          => result = None

\* generate_comprehensive_signal has raised inside analyze_asset, here on a
\* frame whose indicators could not be computed
C7_Witness ==
    /\ pc = "done"
    /\ caller = "analyze_asset"
    /\ gcs_outcome = Raised("KeyError")
    /\ result = None

C9_DecisionRule ==
    (pc \in {"construct", "done"} /\ rules_run > 0)
    => LET minimum == IF timeframe = 1 THEN 5 * Point ELSE (11 * Point) \div 2
       IN  /\ decision.direction = "BUY"
                <=> (buy_score > sell_score /\ buy_score >= minimum)
           /\ decision.direction = "SELL"
                <=> (sell_score > buy_score /\ sell_score >= minimum)
           /\ decision.direction \in {"BUY", "SELL", "NONE"}

\* on a timeframe other than 1, a winning score of at least 5.0 but below
\* 5.5 selects nothing
C9_Witness ==
    /\ pc = "done"
    /\ timeframe # 1
    /\ rules_run > 0
    /\ buy_score > sell_score
    /\ buy_score >= 5 * Point
    /\ buy_score < (11 * Point) \div 2
    /\ decision.direction = "NONE"

\* C10: a trend of strength < 0.6 (every NEUTRAL one included) makes
\* generate_comprehensive_signal return no signal with no scoring rule
\* evaluated; scoring runs only after a trend of strength >= 0.6.
C10_TrendGate ==
    /\ (pc = "score" \/ rules_run > 0)
          => /\ trend_info.trend \in {"BULLISH", "BEARISH"}
             /\ 10 * trend_info.strength >= 6 * StrengthOne
    /\ (pc = "done" /\ trend_info # NoTrend /\ 10 * trend_info.strength < 6 * StrengthOne)
          => (gcs_outcome = None /\ rules_run = 0)

\* a BULLISH trend of strength 0.5 has stopped the call before scoring
C10_Witness ==
    /\ pc = "done"
    /\ trend_info.trend = "BULLISH"
    /\ 10 * trend_info.strength = 5 * StrengthOne
    /\ rules_run = 0
    /\ gcs_outcome = None

\* C13: after any sequence of save_price_data calls the series handed to
\* indicator computation has strictly ascending, unique timestamps: the
\* store keeps at most one bar per (asset, timeframe, timestamp), with the
\* values of the latest save for that key, get_latest_prices returns the
\* most recent bars first, and get_price_data re-sorts them into ascending
\* time order.
C13_SeriesAscendingUnique ==
    /\ \A r1, r2 \in price_data : SameKey(r1, r2) => r1 = r2
    /\ last_save.ok
          => { r \in price_data : SameKey(r, last_save.row) } = {last_save.row}
    /\ (store_pc = "fetched" /\ query.ok)
          => LET matching == { r \in price_data :
                                 r.asset = query.asset /\ r.timeframe = query.timeframe }
                 got == { fetched[k] : k \in 1..Len(fetched) }
             IN  /\ Len(fetched) = Min(query.limit, Cardinality(matching))
                 /\ got \subseteq matching
                 /\ \A k \in 1..(Len(fetched) - 1) :
                       fetched[k].timestamp > fetched[k + 1].timestamp
                 /\ \A r \in matching \ got, g \in got : r.timestamp < g.timestamp
                 /\ Len(series) = Len(fetched)
                 /\ \A k \in 1..Len(series) :
                       /\ series[k].index.sec = fetched[Len(fetched) + 1 - k].timestamp
                       /\ series[k].close = fetched[Len(fetched) + 1 - k].close
    /\ \A k \in 1..(Len(series) - 1) :
          \/ series[k].index.sec < series[k + 1].index.sec
          \/ /\ series[k].index.sec = series[k + 1].index.sec
             /\ series[k].index.ns < series[k + 1].index.ns

\* after three saves that left two rows, the last of them carrying the
\* close 2, a read of the latest bar of that row's series returns it
C13_Witness ==
    /\ store_pc = "fetched"
    /\ saves = 3
    /\ Cardinality(price_data) = 2
    /\ query.limit = 1
    /\ Len(series) = 1
    /\ last_save.ok
    /\ last_save.row.close = 2
    /\ series[1].index.sec = last_save.row.timestamp
    /\ series[1].close = 2

\* C14: detect_trend returns NEUTRAL with strength 0 on fewer than 50 rows;
\* otherwise BULLISH exactly when ema_9 > ema_21 > ema_50 and
\* close > ema_9 > ema_21 on the latest row, BEARISH exactly on the mirrored
\* chain, NEUTRAL with strength 0 in every other case; the strength lies in
\* [0, 1].
C14_TrendCases ==
    (trend_info # NoTrend)
    => LET cur == df.current
           bullish == /\ cur.ema_9 > cur.ema_21 /\ cur.ema_21 > cur.ema_50
                      /\ cur.close > cur.ema_9
           bearish == /\ cur.ema_9 < cur.ema_21 /\ cur.ema_21 < cur.ema_50
                      /\ cur.close < cur.ema_9
       IN  /\ df.clean_len < 50
                => trend_info = [trend |-> "NEUTRAL", strength |-> 0]
           /\ df.clean_len >= 50
                => /\ trend_info.trend = "BULLISH" <=> bullish
                   /\ trend_info.trend = "BEARISH" <=> bearish
                   /\ (~bullish /\ ~bearish)
                        => trend_info = [trend |-> "NEUTRAL", strength |-> 0]
           /\ trend_info.trend \in {"BULLISH", "BEARISH", "NEUTRAL"}
           /\ 0 <= trend_info.strength /\ trend_info.strength <= StrengthOne

\* detect_trend has run on 49 rows whose latest one has the bullish stack
C14_Witness ==
    /\ pc = "done"
    /\ df.clean_len = 49
    /\ df.current.ema_9 > df.current.ema_21
    /\ df.current.ema_21 > df.current.ema_50
    /\ df.current.close > df.current.ema_9
    /\ trend_info = [trend |-> "NEUTRAL", strength |-> 0]

\* C15: for a non-NEUTRAL trend the strength is min(|slope| * 1000, 1.0),
\* slope = (ema21[cur] - ema21[ref]) / ema21[ref], with ref the row exactly
\* 10 bars earlier than cur (strength in units of 1 / StrengthOne).
C15_SlopeTenBarsBack ==
    (trend_info.trend \in {"BULLISH", "BEARISH"})
    => trend_info.strength =
          Min((Abs(df.current.ema_21 - df.ema21_prior) * 1000 * StrengthOne)
                  \div df.ema21_prior, StrengthOne)

\* C16: the RSI extreme-cross rule adds 1.5 to buy_score exactly when RSI
\* goes from below 30 on the previous row to above 30 on the current row,
\* and 1.5 to sell_score exactly when it goes from above 70 to below 70.
C16_RsiCrossOut ==
    (rules_run > 0)
    => /\ rule_adds[2].buy = (3 * Point) \div 2
            <=> (df.prev.rsi < 30 /\ df.current.rsi > 30)
       /\ rule_adds[2].sell = (3 * Point) \div 2
            <=> (df.prev.rsi > 70 /\ df.current.rsi < 70)

\* C16 as amended: the rule adds 1.5 to buy_score exactly when RSI is below
\* 30 on the current row and was at or above 30 on the previous row, and 1.5
\* to sell_score exactly when RSI is above 70 on the current row and was at
\* or below 70 on the previous row.
C16_RsiCrossIn ==
    (rules_run > 0)
    => /\ rule_adds[2].buy = (3 * Point) \div 2
            <=> (df.current.rsi < 30 /\ df.prev.rsi >= 30)
       /\ rule_adds[2].sell = (3 * Point) \div 2
            <=> (df.current.rsi > 70 /\ df.prev.rsi <= 70)

\* RSI has fallen from 30 to 25 and the rule has added 1.5 to buy_score
C16_Witness ==
    /\ rules_run > 0
    /\ df.prev.rsi = 30
    /\ df.current.rsi = 25
    /\ rule_adds[2].buy = (3 * Point) \div 2
    /\ rule_adds[2].sell = 0

\* C17: the Bollinger breach rule adds 1.5 to buy_score exactly when the
\* close goes from below the lower band on the previous row to above it on
\* the current row, and 1.5 to sell_score exactly when it goes from above the
\* upper band to below it.
C17_BollingerCrossIn ==
    (rules_run > 0)
    => /\ rule_adds[5].buy = (3 * Point) \div 2
            <=> (/\ df.prev.close < df.prev.bb_lower
                 /\ df.current.close > df.current.bb_lower)
       /\ rule_adds[5].sell = (3 * Point) \div 2
            <=> (/\ df.prev.close > df.prev.bb_upper
                 /\ df.current.close < df.current.bb_upper)

\* C17 as amended: the rule adds 1.5 to buy_score exactly when the close is
\* below the lower band on the current row and was at or above it on the
\* previous row, and 1.5 to sell_score exactly when the close is above the
\* upper band on the current row and was at or below it on the previous row.
C17_BollingerCrossOut ==
    (rules_run > 0)
    => /\ rule_adds[5].buy = (3 * Point) \div 2
            <=> (/\ df.current.close < df.current.bb_lower
                 /\ df.prev.close >= df.prev.bb_lower)
       /\ rule_adds[5].sell = (3 * Point) \div 2
            <=> (/\ df.current.close > df.current.bb_upper
                 /\ df.prev.close <= df.prev.bb_upper)

\* the close has left the band through the upper side and the rule has added
\* 1.5 to sell_score
C17_Witness ==
    /\ rules_run > 0
    /\ df.prev.close <= df.prev.bb_upper
    /\ df.current.close > df.current.bb_upper
    /\ rule_adds[5].sell = (3 * Point) \div 2
    /\ rule_adds[5].buy = 0

\* C18: every rule of the table that triggers adds its weight to exactly one
\* of buy_score and sell_score and appends one reason tag, so the number of
\* reason tags equals the number of triggered rules and
\* buy_score + sell_score equals the sum of the weights of the triggered
\* rules; no rule suppresses another.
C18_TagPerRule ==
    (rules_run > 0)
    => LET triggered == { i \in 1..Len(rule_adds) : rule_adds[i] # Nothing }
       IN  /\ \A i \in triggered :
                 /\ (rule_adds[i].buy > 0) # (rule_adds[i].sell > 0)
                 /\ Len(rule_adds[i].reasons) = 1
           /\ Len(signal_reasons) = Cardinality(triggered)
           /\ buy_score + sell_score = SumBuy(rule_adds) + SumSell(rule_adds)

\* C18 as amended: every rule that triggers adds its weight to exactly one of
\* buy_score and sell_score; every one except MACD histogram momentum and
\* price action appends one reason tag and those two append none, so the
\* number of reason tags equals the number of triggered rules other than
\* those two; buy_score + sell_score equals the sum of the weights of the
\* triggered rules.
C18_TagPerTaggedRule ==
    (rules_run > 0)
    => LET triggered == { i \in 1..Len(rule_adds) : rule_adds[i] # Nothing }
           untagged == {4, 9}
           extreme == df.current.rsi < 30 \/ df.current.rsi > 70
           weight(i) ==
               CASE i \in {1, 3} -> 2 * Point
                 [] i = 2 -> IF extreme THEN (3 * Point) \div 2 ELSE Point \div 2
                 [] i = 5 -> (3 * Point) \div 2
                 [] i \in {4, 6, 9} -> Point \div 2
                 [] i \in {7, 10} -> Point
                 [] i = 8 -> (3 * Point * trend_info.strength) \div (2 * StrengthOne)
           added(i) == IF i \in triggered THEN weight(i) ELSE 0
       IN  /\ Len(rule_adds) = 10
           /\ \A i \in triggered :
                 /\ (rule_adds[i].buy > 0) # (rule_adds[i].sell > 0)
                 /\ rule_adds[i].buy + rule_adds[i].sell = weight(i)
                 /\ Len(rule_adds[i].reasons) = IF i \in untagged THEN 0 ELSE 1
           /\ Len(signal_reasons) = Cardinality(triggered \ untagged)
           /\ buy_score + sell_score =
                 added(1) + added(2) + added(3) + added(4) + added(5)
                 + added(6) + added(7) + added(8) + added(9) + added(10)

\* the histogram rule and the price-action rule have both added their half
\* point, on opposite sides, next to rules that append a tag
C18_Witness ==
    /\ rules_run > 0
    /\ rule_adds[4].buy = Point \div 2
    /\ rule_adds[9].sell = Point \div 2
    /\ rule_adds[4].reasons = << >>
    /\ rule_adds[9].reasons = << >>
    /\ Len(signal_reasons) >= 3
    /\ buy_score > 0
    /\ sell_score > 0

\* C20: whenever generate_comprehensive_signal reaches scoring, the current
\* row is the latest bar of the input series and the previous row the bar
\* immediately before it; dropping incomplete rows never shifts trend
\* detection or scoring onto older bars.
C20_CurrentIsLatest ==
    (rules_run > 0)
    => /\ CurrentIndex(df) = df.len - 1
       /\ PrevIndex(df) = df.len - 2

\* C11: on every row whose 14-bar average loss is 0 the RSI is 100, with no
\* division fault, also when the 14-bar average gain is 0 as well; a flat
\* series of any length yields RSI = 100.
C11_ZeroLossRsi100 ==
    (ind_pc \in {"computed", "selected"})
    => \A i \in RsiWindow..Len(frame.bars) :
          LossSum(frame.bars, i) = 0 => frame.rsi[i] = Num(100 * Hundredth)

\* C12: the indicator, trend and scoring stages leave the caller's series
\* unchanged: after calculate_technical_indicators or
\* generate_comprehensive_signal returns, the object the caller passed in has
\* the columns and the values it had before the call.
C12_CallerFrameUnchanged ==
    (ind_pc \in {"computed", "selected", "abstained"}) => frame = passed

\* C19: on every row whose 14-bar high-low range is 0, %K is undefined (and
\* %D on the rows that average it), neither a fault nor an infinity, and the
\* row is never the current or the previous row of the scorer.
C19_ZeroRangeUndefined ==
    (ind_pc \in {"computed", "selected"})
    => \A i \in StochWindow..Len(frame.bars) :
          (High14(frame.bars, i) = Low14(frame.bars, i))
          => /\ frame.stoch_k[i] = NaN
             /\ \A j \in i..Min(i + StochSmooth - 1, Len(frame.bars)) :
                   frame.stoch_d[j] = NaN
             /\ ind_pc = "selected" => (current_idx # i /\ prev_idx # i)

\* 120 bars end on 14 bars without range: the last row has no %K and the
\* rows read are older ones
C19_Witness ==
    /\ ind_pc = "selected"
    /\ Len(frame.bars) = 120
    /\ High14(frame.bars, 120) = Low14(frame.bars, 120)
    /\ frame.stoch_k[120] = NaN
    /\ current_idx < 120
    /\ prev_idx < current_idx

\* C21: on timeframe 1 a winning score of exactly 5.0, which meets the
\* minimum score, never yields a signal, its strength of 0.5 being discarded
\* by the strength <= 0.5 filter; every decision that passes the post-filters
\* has a winning score above 5.0 on timeframe 1 and of at least 5.5 on every
\* other timeframe.
C21_FiveIsDiscarded ==
    LET winning == Max(buy_score, sell_score)
    IN  /\ (pc = "done" /\ rules_run > 0 /\ timeframe = 1 /\ winning = 5 * Point)
              => /\ gcs_outcome = None
                 /\ target_price = Unbound
        /\ (pc \in {"construct", "done"} /\ rules_run > 0 /\ Passed)
              => /\ winning > 5 * Point
                 /\ timeframe # 1 => winning >= (11 * Point) \div 2
        /\ pc = "construct" => Passed

\* on timeframe 1 a buy_score of exactly 5.0 has won with a confidence that
\* would pass, and the call has returned nothing
C21_Witness ==
    /\ pc = "done"
    /\ timeframe = 1
    /\ buy_score = 5 * Point
    /\ decision.direction = "BUY"
    /\ decision.strength = 5 * Point
    /\ ~ConfidenceTooLow(decision.confidence)
    /\ gcs_outcome = None

\* C22: a cleaned series of at least 20 but fewer than 50 complete rows never
\* yields a signal: detect_trend returns NEUTRAL, 0 for it and the 0.6 trend
\* gate abstains, so no call reaches scoring on fewer than 50 complete rows.
C22_FiftyRowsNeeded ==
    /\ (pc = "done" /\ trend_info # NoTrend /\ df.clean_len >= 20 /\ df.clean_len < 50)
          => /\ trend_info = [trend |-> "NEUTRAL", strength |-> 0]
             /\ rules_run = 0
             /\ gcs_outcome = None
             /\ result = None
    /\ (pc \in {"score", "decide", "construct"} \/ rules_run > 0) => df.clean_len >= 50

\* a call on 200 bars of which 20 rows are complete, the last with a bearish
\* stack and a steep ema_21, has stopped at the trend gate
C22_Witness ==
    /\ pc = "done"
    /\ df.len = FullLen
    /\ df.clean_len = 20
    /\ df.current.ema_9 < df.current.ema_21
    /\ df.current.ema_21 < df.current.ema_50
    /\ df.current.close < df.current.ema_9
    /\ Abs(df.current.ema_21 - df.ema21_ref) * 1000 >= df.ema21_ref
    /\ trend_info = [trend |-> "NEUTRAL", strength |-> 0]
    /\ gcs_outcome = None

\* C24: when the configuration file does not exist, constructing the bot
\* falls back to the built-in defaults: load_config logs a warning, returns
\* the defaults, and construction completes without an error.
C24_MissingFileFallsBack ==
    (bot_pc # "new" /\ config_file.kind = "missing")
        => /\ bot_pc = "ready"
           /\ construct_exc = ""
           /\ warned
           /\ config = DefaultConfig
           /\ bot_assets = DefaultConfig.assets

====
